---- MODULE Spec2Model ----
(***************************************************************************)
(* numba/dppy/initialize.py: registration of the "dppy" target in the     *)
(* host compiler's three on-demand registries and the permanent loading   *)
(* of the two native libraries.                                           *)
(*                                                                         *)
(* State: the three `ondemand` dictionaries, the set of native libraries  *)
(* resident in the process, the set of imported modules (sys.modules), the *)
(* number of closures each registration function has created so far, and  *)
(* a record of the last call (its inputs from the environment, how it     *)
(* ended, which loads it requested, what it returned).  History: how      *)
(* often each registration function has returned normally, which          *)
(* factories have been called, and the dictionaries as they were at start. *)
(***************************************************************************)
EXTENDS Naturals, Sequences, FiniteSets, TLC

VARIABLES ondemand, loaded, modules, closures, last, succeeded, invoked, ondemand0

vars == <<ondemand, loaded, modules, closures, last, succeeded, invoked, ondemand0>>

\* How many closures one registration function may create in a run.
MaxClosures == 2

\* ------------------------------------------------------------------------
\* Names used by the file.

\* The key written at lines 13, 26, 36.
Key == "dppy"

\* The three dictionaries the file writes to (lines 13, 26, 36).
DispatcherRegistry == "dispatcher_registry"
VectorizeRegistry == "Vectorize.target_registry"
GUVectorizeRegistry == "GUVectorize.target_registry"
Registries == {DispatcherRegistry, VectorizeRegistry, GUVectorizeRegistry}

\* Keys another plugin of the host may have registered before this file runs.
HostKeys == {"cuda"}
HostFactory == [fn |-> "host", gen |-> 0]

\* The modules imported by the file's functions.
RegistryModule == "numba.targets.registry"
NpyufuncModule == "numba.npyufunc"
DispatcherModule == "numba.dppy.dispatcher"
VectorizersModule == "numba.dppy.vectorizers"

\* What a call that raised returns: nothing.
NoValue == "<no value>"

\* Outcomes of a deferred import `from M import T`: the module and the name
\* resolve; the module is not found; the module resolves but the name is
\* missing from it.
ImportOutcomes == {"ok", "module-not-found", "symbol-not-found"}

\* The module a `from M import T` leaves in sys.modules.
ImportEffect(mod, res) ==
    IF res \in {"ok", "symbol-not-found"} THEN {mod} ELSE {}

\* ------------------------------------------------------------------------
\* The factories.

\* Mutation: the wrong type is returned.
init_jit_wrong(res) ==
    IF res = "ok"
    THEN [outcome |-> "ok", ret |-> "OclVectorize", imports |-> DispatcherModule]
    ELSE [outcome |-> res, ret |-> NoValue, imports |-> DispatcherModule]

\* init_jit(), lines 7-9: import the dispatcher type and return it; a failed
\* import is not caught.
init_jit(res) ==
    IF res = "ok"
    THEN [outcome |-> "ok", ret |-> "DPPyDispatcher", imports |-> DispatcherModule]
    ELSE [outcome |-> res, ret |-> NoValue, imports |-> DispatcherModule]

\* init_vectorize(), lines 21-24.
init_vectorize(res) ==
    IF res = "ok"
    THEN [outcome |-> "ok", ret |-> "OclVectorize", imports |-> VectorizersModule]
    ELSE [outcome |-> res, ret |-> NoValue, imports |-> VectorizersModule]

\* init_guvectorize(), lines 31-34.
init_guvectorize(res) ==
    IF res = "ok"
    THEN [outcome |-> "ok", ret |-> "OclGUFuncVectorize", imports |-> VectorizersModule]
    ELSE [outcome |-> res, ret |-> NoValue, imports |-> VectorizersModule]

\* The function objects stored in the registries.  init_jit is a module-level
\* function (one object); init_vectorize and init_guvectorize are created
\* anew by every call of their enclosing function (`gen` tells them apart).
InitJitFactory == [fn |-> "init_jit", gen |-> 0]
InitVectorizeFactory(n) == [fn |-> "init_vectorize", gen |-> n]
InitGUVectorizeFactory(n) == [fn |-> "init_guvectorize", gen |-> n]

\* Calling a stored function object.
Call(f, res) ==
    CASE f.fn = "init_jit" -> init_jit(res)
      [] f.fn = "init_vectorize" -> init_vectorize(res)
      [] f.fn = "init_guvectorize" -> init_guvectorize(res)

\* ------------------------------------------------------------------------
\* Dictionary assignment and library loading.

\* Mutation: the dictionary is replaced by one holding only the new entry.
PutReplace(d, k, f) == [x \in {k} |-> f]

\* Mutation: an existing key is dropped instead of overwritten.
PutToggle(d, k, f) ==
    IF k \in DOMAIN d
    THEN [x \in DOMAIN d \ {k} |-> d[x]]
    ELSE [x \in DOMAIN d \cup {k} |-> IF x = k THEN f ELSE d[x]]

\* d[k] = f on a dict (lines 13, 26, 36).
Put(d, k, f) == [x \in DOMAIN d \cup {k} |-> IF x = k THEN f ELSE d[x]]

\* Mutations of the load sequence.
LoadOrderSwapped == <<"libOpenCL.so", "libdpglue.so">>
LoadOrderOne == <<"libdpglue.so">>

\* The libraries loaded by initialize_all, in program order (lines 15-16).
LoadOrder == <<"libdpglue.so", "libOpenCL.so">>

\* Index of the first load that fails, 0 when none does.  ok[i] tells
\* whether the i-th load succeeds when it is attempted.
FirstFail(ok) ==
    IF \E i \in DOMAIN ok : ~ok[i]
    THEN CHOOSE i \in DOMAIN ok : ~ok[i] /\ \A j \in 1..(i - 1) : ok[j]
    ELSE 0

\* Mutation: a failed load is ignored and the next one attempted.
LoadAllIgnoring(order, ok) ==
    [attempts |-> order,
     loadedNow |-> {order[i] : i \in {j \in DOMAIN order : ok[j]}},
     outcome |-> "ok",
     failedAt |-> "none"]

\* Consecutive ll.load_library_permanently calls (lines 15-16): each raises
\* on failure, which ends the enclosing function at once.
LoadAll(order, ok) ==
    LET f == FirstFail(ok)
        n == IF f = 0 THEN Len(order) ELSE f
    IN  [attempts |-> SubSeq(order, 1, n),
         loadedNow |-> {order[i] : i \in {j \in 1..n : ok[j]}},
         outcome |-> IF f = 0 THEN "ok" ELSE "load-failure",
         failedAt |-> IF f = 0 THEN "none" ELSE order[f]]

\* ------------------------------------------------------------------------
\* The registration functions.

\* Mutation: the dispatcher type is imported when registering.
initialize_all_imports_eager == {RegistryModule, DispatcherModule}

\* The import executed by initialize_all itself (line 12).
initialize_all_imports == {RegistryModule}

\* Mutation: _initialize_gufunc writes to the elementwise registry.
GufuncTargetCrossed == VectorizeRegistry

\* Mutation: _initialize_ufunc writes to the dispatcher registry.
UfuncTargetDispatcher == DispatcherRegistry

\* The registry each registration function writes to (lines 13, 26, 36).
InitializeAllTarget == DispatcherRegistry
UfuncTarget == VectorizeRegistry
GufuncTarget == GUVectorizeRegistry

\* The registration functions, and the history of their normal returns:
\* never, once, or again (twice or more).
Operations == {"initialize_all", "_initialize_ufunc", "_initialize_gufunc"}
Returned(h, op) ==
    [h EXCEPT ![op] = IF @ = "never" THEN "once" ELSE "again"]

NoCall ==
    [op |-> "none", registry |-> "none", env |-> <<>>, outcome |-> "ok",
     failedAt |-> "none", attempts |-> <<>>, ret |-> NoValue]

\* Mutation: the entry is registered only after both loads succeeded.
initialize_all_register_last ==
    \E ok \in [DOMAIN LoadOrder -> BOOLEAN] :
        LET r == LoadAll(LoadOrder, ok) IN
        /\ modules' = modules \cup initialize_all_imports
        /\ ondemand' = IF r.outcome = "ok"
                       THEN [ondemand EXCEPT ![InitializeAllTarget] =
                                 Put(@, Key, InitJitFactory)]
                       ELSE ondemand
        /\ loaded' = loaded \cup r.loadedNow
        /\ last' = [op |-> "initialize_all", registry |-> "none", env |-> ok,
                    outcome |-> r.outcome, failedAt |-> r.failedAt,
                    attempts |-> r.attempts,
                    ret |-> IF r.outcome = "ok" THEN "None" ELSE NoValue]
        /\ succeeded' = IF r.outcome = "ok"
                        THEN Returned(succeeded, "initialize_all") ELSE succeeded
        /\ UNCHANGED <<closures, invoked, ondemand0>>

\* initialize_all(), lines 11-16.
initialize_all ==
    \E ok \in [DOMAIN LoadOrder -> BOOLEAN] :
        LET r == LoadAll(LoadOrder, ok) IN
        /\ modules' = modules \cup initialize_all_imports
        /\ ondemand' = [ondemand EXCEPT ![InitializeAllTarget] =
                            Put(@, Key, InitJitFactory)]
        /\ loaded' = loaded \cup r.loadedNow
        /\ last' = [op |-> "initialize_all", registry |-> "none", env |-> ok,
                    outcome |-> r.outcome, failedAt |-> r.failedAt,
                    attempts |-> r.attempts,
                    ret |-> IF r.outcome = "ok" THEN "None" ELSE NoValue]
        /\ succeeded' = IF r.outcome = "ok"
                        THEN Returned(succeeded, "initialize_all") ELSE succeeded
        /\ UNCHANGED <<closures, invoked, ondemand0>>

\* _initialize_ufunc(), lines 18-26.
_initialize_ufunc ==
    /\ closures.ufunc < MaxClosures
    /\ modules' = modules \cup {NpyufuncModule}
    /\ closures' = [closures EXCEPT !.ufunc = @ + 1]
    /\ ondemand' = [ondemand EXCEPT ![UfuncTarget] =
                        Put(@, Key, InitVectorizeFactory(closures.ufunc + 1))]
    /\ last' = [NoCall EXCEPT !.op = "_initialize_ufunc", !.ret = "None"]
    /\ succeeded' = Returned(succeeded, "_initialize_ufunc")
    /\ UNCHANGED <<loaded, invoked, ondemand0>>

\* _initialize_gufunc(), lines 28-36.
_initialize_gufunc ==
    /\ closures.gufunc < MaxClosures
    /\ modules' = modules \cup {NpyufuncModule}
    /\ closures' = [closures EXCEPT !.gufunc = @ + 1]
    /\ ondemand' = [ondemand EXCEPT ![GufuncTarget] =
                        Put(@, Key, InitGUVectorizeFactory(closures.gufunc + 1))]
    /\ last' = [NoCall EXCEPT !.op = "_initialize_gufunc", !.ret = "None"]
    /\ succeeded' = Returned(succeeded, "_initialize_gufunc")
    /\ UNCHANGED <<loaded, invoked, ondemand0>>

\* The host looks up ondemand['dppy'] in registry r and calls what it finds.
\* The lookup only reads the dictionary; the file puts no limit on how often
\* a stored factory is called.
Invoke(r) ==
    /\ Key \in DOMAIN ondemand[r]
    /\ \E res \in ImportOutcomes :
        LET f == ondemand[r][Key]
            c == Call(f, res)
        IN  /\ modules' = modules \cup ImportEffect(c.imports, res)
            /\ last' = [NoCall EXCEPT !.op = f.fn, !.registry = r,
                                      !.env = <<res>>, !.outcome = c.outcome,
                                      !.ret = c.ret]
            /\ invoked' = invoked \cup {f.fn}
    /\ UNCHANGED <<ondemand, loaded, closures, succeeded, ondemand0>>

InvokeDispatcher == Invoke(DispatcherRegistry)
InvokeVectorize == Invoke(VectorizeRegistry)
InvokeGUVectorize == Invoke(GUVectorizeRegistry)

\* A registry's ondemand dictionary before this file runs: empty, or holding
\* the entries of another plugin.
HostDicts == {[x \in S |-> HostFactory] : S \in SUBSET HostKeys}

Init ==
    /\ ondemand \in [Registries -> HostDicts]
    /\ loaded = {}
    /\ modules = {}
    /\ closures = [ufunc |-> 0, gufunc |-> 0]
    /\ last = NoCall
    /\ succeeded = [op \in Operations |-> "never"]
    /\ invoked = {}
    /\ ondemand0 = ondemand

Next ==
    \/ initialize_all
    \/ _initialize_ufunc
    \/ _initialize_gufunc
    \/ InvokeDispatcher
    \/ InvokeVectorize
    \/ InvokeGUVectorize

Spec == Init /\ [][Next]_vars

\* ------------------------------------------------------------------------
\* Vocabulary of the properties.

\* The last call was initialize_all and at least one of its loads fails.
LoadFails(l) ==
    /\ l.op = "initialize_all"
    /\ \E i \in DOMAIN l.env : ~l.env[i]

\* Dictionary d holds the factory named fn under "dppy".
Holds(d, fn) == "dppy" \in DOMAIN d /\ d["dppy"].fn = fn

\* Dictionaries d and e agree on every key other than "dppy".
SameOtherKeys(d, e) ==
    /\ DOMAIN d \ {"dppy"} = DOMAIN e \ {"dppy"}
    /\ \A k \in DOMAIN d \ {"dppy"} : d[k] = e[k]

\* Two stored factories give the same result whenever they are called.
Equivalent(f, g) ==
    \/ f = g
    \/ /\ f.fn # "host" /\ g.fn # "host"
       /\ \A res \in ImportOutcomes : Call(f, res) = Call(g, res)

\* Dictionaries d and e have the same keys and equivalent factories.
EquivalentDicts(d, e) ==
    /\ DOMAIN d = DOMAIN e
    /\ \A k \in DOMAIN d : Equivalent(d[k], e[k])

BothLibraries == {"libdpglue.so", "libOpenCL.so"}

\* ------------------------------------------------------------------------
\* C1 (as stated): a failed initialize_all leaves either all of its effects
\* (entry registered and both libraries loaded) or none of them (registry and
\* loaded libraries as before the call).
C1_NoPartialSuccess ==
    [][ LoadFails(last') =>
          \/ /\ ondemand' = ondemand
             /\ loaded' = loaded
          \/ /\ Holds(ondemand'["dispatcher_registry"], "init_jit")
             /\ BothLibraries \subseteq loaded' ]_vars

\* C1 (amended): a failed initialize_all ends in the load failure and keeps
\* the effects of the steps before the failing load and none of the later
\* ones: "dppy" -> init_jit is registered in both cases; when libdpglue.so
\* fails no library is loaded by the call, and when libOpenCL.so fails
\* libdpglue.so is left loaded by the call and libOpenCL.so is not.
C1_FailureKeepsEarlierSteps ==
    [][ LoadFails(last') =>
          /\ last'.outcome = "load-failure"
          /\ Holds(ondemand'["dispatcher_registry"], "init_jit")
          /\ ~last'.env[1] => loaded' = loaded
          /\ last'.env[1] => loaded' = loaded \cup {"libdpglue.so"} ]_vars

\* A first initialize_all whose second load failed: the entry is registered,
\* libdpglue.so is resident, libOpenCL.so is not.
C1_Witness ==
    /\ last.op = "initialize_all"
    /\ last.env = <<TRUE, FALSE>>
    /\ succeeded["initialize_all"] = "never"
    /\ Holds(ondemand["dispatcher_registry"], "init_jit")
    /\ loaded = {"libdpglue.so"}

\* C2: once initialize_all has returned normally, the dispatcher registry
\* maps "dppy" to init_jit, and a call of that entry whose import resolves
\* is a call of init_jit that returns DPPyDispatcher.
C2_DispatcherEntry ==
    succeeded["initialize_all"] # "never" =>
        /\ "dppy" \in DOMAIN ondemand["dispatcher_registry"]
        /\ ondemand["dispatcher_registry"]["dppy"] = [fn |-> "init_jit", gen |-> 0]
        /\ (last.registry = "dispatcher_registry" /\ last.env = <<"ok">>) =>
               /\ last.op = "init_jit"
               /\ last.outcome = "ok"
               /\ last.ret = "DPPyDispatcher"

C2_Witness ==
    /\ succeeded["initialize_all"] # "never"
    /\ last.registry = "dispatcher_registry"
    /\ last.env = <<"ok">>
    /\ last.ret = "DPPyDispatcher"

\* C3: after _initialize_ufunc the elementwise registry's "dppy" factory is
\* init_vectorize and returns OclVectorize when called; after
\* _initialize_gufunc the generalized registry's "dppy" factory is
\* init_guvectorize and returns OclGUFuncVectorize; neither registry ever
\* holds the other's factory.
C3_VectorizerEntries ==
    /\ succeeded["_initialize_ufunc"] # "never" =>
           Holds(ondemand["Vectorize.target_registry"], "init_vectorize")
    /\ succeeded["_initialize_gufunc"] # "never" =>
           Holds(ondemand["GUVectorize.target_registry"], "init_guvectorize")
    /\ (last.registry = "Vectorize.target_registry" /\ last.env = <<"ok">>) =>
           /\ last.op = "init_vectorize"
           /\ last.outcome = "ok"
           /\ last.ret = "OclVectorize"
    /\ (last.registry = "GUVectorize.target_registry" /\ last.env = <<"ok">>) =>
           /\ last.op = "init_guvectorize"
           /\ last.outcome = "ok"
           /\ last.ret = "OclGUFuncVectorize"
    /\ \A k \in DOMAIN ondemand["Vectorize.target_registry"] :
           ondemand["Vectorize.target_registry"][k].fn # "init_guvectorize"
    /\ \A k \in DOMAIN ondemand["GUVectorize.target_registry"] :
           ondemand["GUVectorize.target_registry"][k].fn # "init_vectorize"

\* Both functions were called more than once and the generalized entry was
\* then called, its import resolving.
C3_Witness ==
    /\ succeeded["_initialize_ufunc"] = "again"
    /\ succeeded["_initialize_gufunc"] = "again"
    /\ last.registry = "GUVectorize.target_registry"
    /\ last.ret = "OclGUFuncVectorize"
    /\ "numba.dppy.vectorizers" \in modules

\* C4: while no registered factory has been called, neither
\* numba.dppy.dispatcher nor numba.dppy.vectorizers is imported; the
\* dispatcher module is first imported by a call of init_jit, the vectorizers
\* module by a call of init_vectorize or init_guvectorize.
C4_Lazy ==
    /\ [](invoked = {} =>
            /\ "numba.dppy.dispatcher" \notin modules
            /\ "numba.dppy.vectorizers" \notin modules)
    /\ [][ "numba.dppy.dispatcher" \in modules' \ modules =>
               last'.op = "init_jit" ]_vars
    /\ [][ "numba.dppy.vectorizers" \in modules' \ modules =>
               last'.op \in {"init_vectorize", "init_guvectorize"} ]_vars

\* Every registration function has run and no factory has been called.
C4_Witness ==
    /\ \A op \in Operations : succeeded[op] # "never"
    /\ invoked = {}
    /\ "numba.dppy.dispatcher" \notin modules
    /\ "numba.dppy.vectorizers" \notin modules

\* C5: a call of a registration function that has returned normally before,
\* with every load it makes succeeding, returns normally again and leaves
\* every registry with the same keys and with equivalent factories (same
\* result when called), and the loaded libraries and imported modules as
\* they were.
C5_Idempotent ==
    [][ (last'.op \in Operations /\ succeeded[last'.op] # "never"
             /\ \A i \in DOMAIN last'.env : last'.env[i]) =>
          /\ last'.outcome = "ok"
          /\ \A r \in Registries : EquivalentDicts(ondemand'[r], ondemand[r])
          /\ loaded' = loaded
          /\ modules' = modules ]_vars

\* Each of the three functions has returned normally at least twice.
C5_Witness ==
    /\ \A op \in Operations : succeeded[op] = "again"
    /\ last.op = "initialize_all"
    /\ last.outcome = "ok"

\* C6: initialize_all leaves both vectorization registries unchanged;
\* _initialize_ufunc changes only the elementwise registry's "dppy" entry and
\* _initialize_gufunc only the generalized registry's "dppy" entry, neither
\* touching the dispatcher registry or the loaded libraries; once all three
\* have returned normally the state is the initial dictionaries plus the
\* three "dppy" entries and the two libraries, whatever the order was.
C6_Independent ==
    /\ [][ last'.op = "initialize_all" =>
             /\ ondemand'["Vectorize.target_registry"]
                    = ondemand["Vectorize.target_registry"]
             /\ ondemand'["GUVectorize.target_registry"]
                    = ondemand["GUVectorize.target_registry"] ]_vars
    /\ [][ last'.op = "_initialize_ufunc" =>
             /\ SameOtherKeys(ondemand'["Vectorize.target_registry"],
                              ondemand["Vectorize.target_registry"])
             /\ ondemand'["GUVectorize.target_registry"]
                    = ondemand["GUVectorize.target_registry"]
             /\ ondemand'["dispatcher_registry"] = ondemand["dispatcher_registry"]
             /\ loaded' = loaded ]_vars
    /\ [][ last'.op = "_initialize_gufunc" =>
             /\ SameOtherKeys(ondemand'["GUVectorize.target_registry"],
                              ondemand["GUVectorize.target_registry"])
             /\ ondemand'["Vectorize.target_registry"]
                    = ondemand["Vectorize.target_registry"]
             /\ ondemand'["dispatcher_registry"] = ondemand["dispatcher_registry"]
             /\ loaded' = loaded ]_vars
    /\ []((\A op \in Operations : succeeded[op] # "never") =>
             /\ \A r \in Registries : SameOtherKeys(ondemand[r], ondemand0[r])
             /\ Holds(ondemand["dispatcher_registry"], "init_jit")
             /\ Holds(ondemand["Vectorize.target_registry"], "init_vectorize")
             /\ Holds(ondemand["GUVectorize.target_registry"], "init_guvectorize")
             /\ loaded = BothLibraries)

\* All three have returned normally, initialize_all last, with an entry of
\* another plugin present in the dispatcher registry.
C6_Witness ==
    /\ \A op \in Operations : succeeded[op] = "once"
    /\ last.op = "initialize_all"
    /\ "cuda" \in DOMAIN ondemand["dispatcher_registry"]

\* C7: in every step a registry that contains "dppy" keeps it, the keys
\* other than "dppy" of every registry stay as they are, and every loaded
\* library stays loaded.
C7_Additive ==
    [][ /\ \A r \in Registries :
              /\ "dppy" \in DOMAIN ondemand[r] => "dppy" \in DOMAIN ondemand'[r]
              /\ DOMAIN ondemand'[r] \ {"dppy"} = DOMAIN ondemand[r] \ {"dppy"}
        /\ loaded \subseteq loaded' ]_vars

\* A failed initialize_all after a successful one and a factory call, with
\* another plugin's key in the dispatcher registry: all is still there.
C7_Witness ==
    /\ last.op = "initialize_all"
    /\ last.outcome = "load-failure"
    /\ succeeded["initialize_all"] # "never"
    /\ invoked # {}
    /\ loaded = BothLibraries
    /\ DOMAIN ondemand["dispatcher_registry"] = {"cuda", "dppy"}

\* C8: a factory whose import fails ends in that failure, returns nothing,
\* and leaves registries and loaded libraries unchanged; an initialize_all
\* whose load fails ends in a load failure of that library, having requested
\* it once, as its last request.
C8_FailureSurfaced ==
    /\ [][ (last'.op \in {"init_jit", "init_vectorize", "init_guvectorize"}
                /\ last'.env[1] # "ok") =>
             /\ last'.outcome = last'.env[1]
             /\ last'.ret = NoValue
             /\ ondemand' = ondemand
             /\ loaded' = loaded ]_vars
    /\ [][ LoadFails(last') =>
             /\ last'.outcome = "load-failure"
             /\ last'.ret = NoValue
             /\ ~last'.env[1] =>
                    /\ last'.failedAt = "libdpglue.so"
                    /\ last'.attempts = <<"libdpglue.so">>
             /\ last'.env[1] =>
                    /\ last'.failedAt = "libOpenCL.so"
                    /\ last'.attempts = <<"libdpglue.so", "libOpenCL.so">> ]_vars

\* init_jit was called through the registry and its import failed on the
\* missing name, after an initialize_all that failed on its second load.
C8_Witness ==
    /\ last.op = "init_jit"
    /\ last.env = <<"symbol-not-found">>
    /\ last.outcome = "symbol-not-found"
    /\ loaded = {"libdpglue.so"}

\* C9: an initialize_all that returns normally has requested exactly
\* libdpglue.so and libOpenCL.so, has written exactly the dispatcher
\* registry's "dppy" entry (init_jit), and leaves both libraries loaded and
\* no other library newly loaded.
C9_TwoLoadsOneInsert ==
    [][ (last'.op = "initialize_all" /\ last'.outcome = "ok") =>
          /\ last'.attempts = <<"libdpglue.so", "libOpenCL.so">>
          /\ BothLibraries \subseteq loaded'
          /\ loaded' \subseteq loaded \cup BothLibraries
          /\ Holds(ondemand'["dispatcher_registry"], "init_jit")
          /\ SameOtherKeys(ondemand'["dispatcher_registry"],
                           ondemand["dispatcher_registry"])
          /\ ondemand'["Vectorize.target_registry"]
                 = ondemand["Vectorize.target_registry"]
          /\ ondemand'["GUVectorize.target_registry"]
                 = ondemand["GUVectorize.target_registry"] ]_vars

\* The first normal return of initialize_all.
C9_Witness ==
    /\ last.op = "initialize_all"
    /\ last.outcome = "ok"
    /\ succeeded["initialize_all"] = "once"
    /\ loaded = BothLibraries

\* C10: libOpenCL.so loaded implies libdpglue.so loaded, and libdpglue.so
\* loaded implies the dispatcher registry contains "dppy"; the loads an
\* initialize_all requested are a prefix of libdpglue.so, libOpenCL.so.
C10_StepOrder ==
    /\ "libOpenCL.so" \in loaded => "libdpglue.so" \in loaded
    /\ "libdpglue.so" \in loaded => "dppy" \in DOMAIN ondemand["dispatcher_registry"]
    /\ last.op = "initialize_all" =>
           \E n \in 1..2 :
               last.attempts = SubSeq(<<"libdpglue.so", "libOpenCL.so">>, 1, n)

\* After a call whose first load succeeded and whose second failed, only
\* libdpglue.so is loaded.
C10_Witness ==
    /\ last.op = "initialize_all"
    /\ last.failedAt = "libOpenCL.so"
    /\ "libdpglue.so" \in loaded
    /\ "libOpenCL.so" \notin loaded

====
